---- MODULE Spec2Model ----
(***************************************************************************)
(* The AML transaction monitoring pipeline of app.py: the synthetic data   *)
(* source generate_transactions, the rule engine apply_rules and the       *)
(* anomaly step apply_ml, all working on one pandas DataFrame.             *)
(*                                                                         *)
(* The DataFrame is modelled column by column, as pandas stores it: df is  *)
(* a function from column names to columns, a column is a sequence indexed *)
(* by row position.  Adding a column to the frame (df["x"] = ...) extends  *)
(* the domain of df.  Amounts are integers (currency units); a mean is     *)
(* kept as the exact fraction sum/count, so float rounding is not          *)
(* modelled.                                                               *)
(***************************************************************************)
EXTENDS Integers, Sequences, FiniteSets, TLC

VARIABLES
    df,     \* the DataFrame the pipeline works on
    n,      \* main's "number of transactions to simulate"; 0 outside main
    pc      \* how far the pipeline has got

vars == <<df, n, pc>>

(***************************************************************************)
(* Bounds of the model                                                     *)
(***************************************************************************)
\* longest run of identical transactions at the head of a caller's batch
MaxRun == 4
\* number of further, freely chosen transactions after that run
MaxExtra == 2
\* largest n handed to generate_transactions
MaxN == 2
\* most distinct feature vectors the isolation forest labels as outliers
MaxOutliers == 1

(***************************************************************************)
(* Program constants                                                       *)
(***************************************************************************)
SmallTxnLimit == 1000
StructuringMin == 5
SpikeFactor == 5
InjectedSenders == 20
InjectedPerSender == 10

\* the location of a record that carries none (None / NaN in the frame)
NoLocation == "<NA>"

InputColumns ==
    {"transaction_id", "sender_id", "receiver_id", "amount", "timestamp", "location"}

\* the list of rule 2 with Garissa forgotten
OffshoreOnly == {"Offshore"}

\* the list of locations of rule 2
HighRiskLocations == {"Offshore", "Garissa"}

\* Python's order of the location strings (get_dummies sorts the categories)
LocationRank(l) ==
    CASE l = "Garissa" -> 1
      [] l = "Kisumu" -> 2
      [] l = "Mombasa" -> 3
      [] l = "Nairobi" -> 4
      [] l = "Offshore" -> 5

(***************************************************************************)
(* Frames                                                                  *)
(***************************************************************************)
Txn(id, s, r, a, t, l) ==
    [transaction_id |-> id, sender_id |-> s, receiver_id |-> r,
     amount |-> a, timestamp |-> t, location |-> l]

\* pd.DataFrame(data, columns=[...]): the rows of data, stored by column
DataFrame(data) ==
    [c \in InputColumns |-> [i \in 1..Len(data) |-> data[i][c]]]

NRows(d) == Len(d["transaction_id"])

Rows(d) == 1..NRows(d)

\* df[col] = values: the column is added to d, or replaced in d
SetColumn(d, col, values) ==
    [c \in (DOMAIN d) \cup {col} |-> IF c = col THEN values ELSE d[c]]

\* df.loc[mask, col] = 1, written as a count instead of a flag
AddWhere(d, mask, col) ==
    SetColumn(d, col, [i \in Rows(d) |-> IF mask[i] THEN d[col][i] + 1 ELSE d[col][i]])

\* df.loc[mask, col] = 1
SetWhere(d, mask, col) ==
    SetColumn(d, col, [i \in Rows(d) |-> IF mask[i] THEN 1 ELSE d[col][i]])

RECURSIVE SumWhere(_, _, _, _, _)
\* the sum of values[j] over the rows lo <= j <= hi whose key is k (summed by
\* halves, which keeps the evaluation shallow on long frames)
SumWhere(keys, values, k, lo, hi) ==
    IF lo > hi THEN 0
    ELSE IF lo = hi THEN (IF keys[lo] = k THEN values[lo] ELSE 0)
    ELSE LET mid == (lo + hi) \div 2
         IN  SumWhere(keys, values, k, lo, mid) + SumWhere(keys, values, k, mid + 1, hi)

\* groupby(keys)[values].transform("sum"): the sum of each group is taken
\* once, and each row gets the sum of its group
GroupSum(keys, values) ==
    LET len == Len(keys)
        groups == {keys[j] : j \in 1..len}
        totals == {<<k, SumWhere(keys, values, k, 1, len)>> : k \in groups}
    IN  [i \in 1..len |-> (CHOOSE t \in totals : t[1] = keys[i])[2]]

\* groupby(keys)[values].transform("mean"): the group's sum over its size,
\* kept as a fraction
GroupMean(keys, values) ==
    LET len == Len(keys)
        sums == GroupSum(keys, values)
        sizes == GroupSum(keys, [j \in 1..len |-> 1])
    IN  [i \in 1..len |-> [num |-> sums[i], den |-> sizes[i]]]

\* a > factor * mean, for a mean num/den with den > 0
ExceedsTimesMean(a, factor, mean) == a * mean.den > factor * mean.num

(***************************************************************************)
(* Rule-based AML checks                                                   *)
(***************************************************************************)
\* df["amount"] < 1000
SmallTxn(d) == [i \in Rows(d) |-> d["amount"][i] < SmallTxnLimit]

\* the structuring mask with the threshold itself left out
StructuringStrict(d) ==
    LET small == [i \in Rows(d) |-> IF d["small_txn"][i] THEN 1 ELSE 0]
        count == GroupSum(d["sender_id"], small)
    IN  [i \in Rows(d) |-> count[i] > StructuringMin]

\* df.groupby("sender_id")["small_txn"].transform("sum") >= 5
Structuring(d) ==
    LET small == [i \in Rows(d) |-> IF d["small_txn"][i] THEN 1 ELSE 0]
        count == GroupSum(d["sender_id"], small)
    IN  [i \in Rows(d) |-> count[i] >= StructuringMin]

\* df["location"].isin(["Offshore", "Garissa"])
HighRisk(d) == [i \in Rows(d) |-> d["location"][i] \in HighRiskLocations]

\* df["amount"] > 5 * avg_amounts
Spike(d) ==
    LET avg_amounts == GroupMean(d["sender_id"], d["amount"])
    IN  [i \in Rows(d) |-> ExceedsTimesMean(d["amount"][i], SpikeFactor, avg_amounts[i])]

apply_rules(d) ==
    LET d0 == SetColumn(d, "rule_flagged", [i \in Rows(d) |-> 0])
        d1 == SetColumn(d0, "small_txn", SmallTxn(d0))
        structuring == Structuring(d1)
        d2 == SetWhere(d1, [i \in Rows(d1) |-> structuring[i] /\ d1["small_txn"][i]],
                       "rule_flagged")
        d3 == SetWhere(d2, HighRisk(d2), "rule_flagged")
        d4 == SetWhere(d3, Spike(d3), "rule_flagged")
    IN  d4

(***************************************************************************)
(* ML anomaly detection                                                    *)
(***************************************************************************)
\* pd.get_dummies(df[["amount", "location"]], drop_first=True): the amount and
\* one indicator per location present in the frame, but for the first of them
\* in sorted order; a row of the first location, or of no location, has every
\* indicator 0.  The indicators of a row are given as the location they mark
\* ("" when all are 0).
Features(d) ==
    LET present == {d["location"][i] : i \in Rows(d)} \ {NoLocation}
        dropped == {l \in present : \A m \in present : LocationRank(l) <= LocationRank(m)}
        kept == present \ dropped
    IN  [i \in Rows(d) |->
            <<d["amount"][i], IF d["location"][i] \in kept THEN d["location"][i] ELSE "">>]

\* the outcomes of IsolationForest(...).fit_predict(features): the forest scores
\* a row by its feature vector alone, so the rows labelled -1 are the rows of a
\* set of feature vectors; which set is the library's choice.
OutlierChoices(d) ==
    LET features == Features(d)
        vectors == {features[i] : i \in Rows(d)}
    IN  {o \in SUBSET vectors : Cardinality(o) <= MaxOutliers}

fit_predict(features, outliers) ==
    [i \in 1..Len(features) |-> IF features[i] \in outliers THEN -1 ELSE 1]

\* df["ml_flagged"].map({1: 0, -1: 1})
MapLabel(v) == CASE v = 1 -> 0 [] v = -1 -> 1

\* the smaller of the two flags of a row: the combiner as AND
RowMin(a, b) == IF a <= b THEN a ELSE b

\* df[["rule_flagged", "ml_flagged"]].max(axis=1), for one row
RowMax(a, b) == IF a >= b THEN a ELSE b

\* apply_ml with the amount rescaled in place before fitting
apply_ml_rescaled(d, outliers) ==
    LET features == Features(d)
        d1 == SetColumn(d, "ml_flagged", fit_predict(features, outliers))
        d2 == SetColumn(d1, "ml_flagged", [i \in Rows(d1) |-> MapLabel(d1["ml_flagged"][i])])
        d3 == SetColumn(d2, "suspicious",
                  [i \in Rows(d2) |-> RowMax(d2["rule_flagged"][i], d2["ml_flagged"][i])])
    IN  SetColumn(d3, "amount", [i \in Rows(d3) |-> d3["amount"][i] \div SmallTxnLimit])

\* apply_ml on a frame of at least one row, the forest labelling outliers
apply_ml(d, outliers) ==
    LET features == Features(d)
        d1 == SetColumn(d, "ml_flagged", fit_predict(features, outliers))
        d2 == SetColumn(d1, "ml_flagged", [i \in Rows(d1) |-> MapLabel(d1["ml_flagged"][i])])
        d3 == SetColumn(d2, "suspicious",
                  [i \in Rows(d2) |-> RowMax(d2["rule_flagged"][i], d2["ml_flagged"][i])])
    IN  d3

(***************************************************************************)
(* Generate synthetic transactions                                         *)
(***************************************************************************)
\* what the random sources give for one of the n random transactions:
\* sender, receiver, amount in 50..5000, minutes before base_time, location
RandomDraws ==
    {[sender_id |-> 5000, receiver_id |-> 1000, amount |-> 2500, minutes |-> 50000,
      location |-> "Kisumu"],
     [sender_id |-> 9999, receiver_id |-> 5000, amount |-> 5000, minutes |-> 1,
      location |-> "Offshore"]}

\* the senders drawn for the injected blocks: block j gets 1000 + step * j, so
\* all blocks share one sender (step 0) or every block has its own (step 1)
InjectedSteps == {0, 1}

\* random.uniform(100, 999) of the injected transactions
InjectedAmounts == {100, 999}

\* generate_transactions(n), n given as num: draws[i] are the random values
\* of the i-th random transaction, the k-th transaction of an injected block
\* goes to receiver 1000 + k; timestamps are minutes relative to base_time
generate_transactions(num, draws, step, amt) ==
    LET random == [i \in 1..num |->
                      Txn(i, draws[i].sender_id, draws[i].receiver_id, draws[i].amount,
                          0 - draws[i].minutes, draws[i].location)]
        injected == [m \in 1..(InjectedSenders * InjectedPerSender) |->
                      LET j == (m - 1) \div InjectedPerSender
                          k == (m - 1) % InjectedPerSender
                      IN  Txn(num + j * InjectedPerSender + k, 1000 + step * j, 1000 + k,
                              amt, 0 - k, "Nairobi")]
    IN  DataFrame(random \o injected)

(***************************************************************************)
(* Batches a caller hands to the pipeline directly                         *)
(***************************************************************************)
\* the transaction repeated at the head of a batch, as a structuring sender
\* repeats a small transfer
RunRow == [sender_id |-> 1, amount |-> 40, location |-> "Nairobi"]

\* the transactions that may follow it
ExtraRows ==
    {[sender_id |-> 1, amount |-> 40, location |-> "Nairobi"],
     [sender_id |-> 1, amount |-> 1000, location |-> "Nairobi"],
     [sender_id |-> 1, amount |-> 1001, location |-> "Nairobi"],
     [sender_id |-> 1, amount |-> 40, location |-> "Offshore"],
     [sender_id |-> 2, amount |-> 1000, location |-> "Nairobi"],
     [sender_id |-> 2, amount |-> 1000, location |-> "Garissa"],
     [sender_id |-> 2, amount |-> 0 - 1, location |-> "Nairobi"],
     [sender_id |-> 2, amount |-> 0, location |-> NoLocation]}

\* the frame of a run of m copies of RunRow followed by the rows of `tail`,
\* with the ids 1, 2, ... and receiver and timestamp fixed
Batch(m, tail) ==
    LET rows == [i \in 1..(m + Len(tail)) |-> IF i <= m THEN RunRow ELSE tail[i - m]]
    IN  DataFrame([i \in 1..Len(rows) |->
                      Txn(i, rows[i].sender_id, 9, rows[i].amount, 0, rows[i].location)])

Batches ==
    {Batch(m, tail) :
        m \in 0..MaxRun,
        tail \in UNION {[1..e -> ExtraRows] : e \in 0..MaxExtra}}

(***************************************************************************)
(* The program                                                             *)
(***************************************************************************)
\* main with its slider set, before "Run Simulation" (no frame yet), or a
\* caller about to run the pipeline on a batch of its own
Init ==
    \/ /\ pc = "main"
       /\ n \in 1..MaxN
       /\ df = DataFrame(<<>>)
    \/ /\ pc = "start"
       /\ n = 0
       /\ df \in Batches

\* df = generate_transactions(n)
GenerateTransactions ==
    /\ pc = "main"
    /\ \E draws \in [1..n -> RandomDraws], step \in InjectedSteps, amt \in InjectedAmounts :
          df' = generate_transactions(n, draws, step, amt)
    /\ pc' = "start"
    /\ UNCHANGED n

\* df = apply_rules(df); also on a frame the pipeline has already processed
ApplyRules ==
    /\ pc \in {"start", "ruled", "done"}
    /\ df' = apply_rules(df)
    /\ pc' = "ruled"
    /\ UNCHANGED n

\* df = apply_ml(df); IsolationForest.fit raises ValueError on a frame
\* without rows, before any column is written
ApplyMl ==
    /\ pc = "ruled"
    /\ IF NRows(df) = 0
       THEN /\ pc' = "error"
            /\ UNCHANGED df
       ELSE /\ \E outliers \in OutlierChoices(df) : df' = apply_ml(df, outliers)
            /\ pc' = "done"
    /\ UNCHANGED n

Next == GenerateTransactions \/ ApplyRules \/ ApplyMl

\* the shape of the state: main's n, the position in the pipeline, and a
\* frame whose columns all have one length
TypeOK ==
    /\ n \in 0..MaxN
    /\ pc \in {"main", "start", "ruled", "done", "error"}
    /\ InputColumns \subseteq DOMAIN df
    /\ \A c \in DOMAIN df : DOMAIN df[c] = Rows(df)

Spec == Init /\ [][Next]_vars

(***************************************************************************)
(* The rules as the specification words them, read off the frame           *)
(***************************************************************************)
\* apply_rules has returned and the frame carries its flags
Ruled == pc \in {"ruled", "done"}

Senders == {df["sender_id"][j] : j \in Rows(df)}

SenderRows(s) == {j \in Rows(df) : df["sender_id"][j] = s}

\* per sender: <<sender, number of its transactions below 1000>>
SmallCounts ==
    {<<s, Cardinality({j \in SenderRows(s) : df["amount"][j] < 1000})>> : s \in Senders}

\* per sender: <<sender, number of its transactions, sum of their amounts>>
SenderTotals ==
    {<<s, Cardinality(SenderRows(s)),
       SumWhere(df["sender_id"], df["amount"], s, 1, NRows(df))>> : s \in Senders}

Of(table, s) == CHOOSE t \in table : t[1] = s

\* rule 1 on row i, given SmallCounts
RuleOne(i, small) ==
    df["amount"][i] < 1000 /\ Of(small, df["sender_id"][i])[2] >= 5

\* rule 2 on row i
RuleTwo(i) == df["location"][i] \in {"Offshore", "Garissa"}

\* rule 3 on row i, given SenderTotals: amount * count > 5 * sum
RuleThree(i, totals) ==
    LET t == Of(totals, df["sender_id"][i])
    IN  df["amount"][i] * t[2] > 5 * t[3]

(***************************************************************************)
(* C1: rule 1 fires on a transaction exactly when its amount is below 1000 *)
(* and its sender has at least 5 transactions below 1000 in the batch; the *)
(* mask apply_rules writes for rule 1 is that set of rows, each of them    *)
(* ends flagged, and a row on which neither rule 1 nor rule 2 nor rule 3   *)
(* fires ends unflagged.                                                   *)
(***************************************************************************)
C1_Structuring ==
    Ruled =>
        LET small == SmallCounts
            totals == SenderTotals
            structuring == Structuring(df)
        IN  \A i \in Rows(df) :
                /\ (structuring[i] /\ df["small_txn"][i]) <=> RuleOne(i, small)
                /\ RuleOne(i, small) => df["rule_flagged"][i] = 1
                /\ (~RuleTwo(i) /\ ~RuleThree(i, totals))
                      => (df["rule_flagged"][i] = 1 <=> RuleOne(i, small))

\* a sender with exactly 5 small transactions, all flagged, and a transaction
\* of 1000 or more that is not
C1_Witness ==
    /\ pc = "ruled"
    /\ \E s \in Senders :
          /\ Of(SmallCounts, s)[2] = 5
          /\ \A i \in SenderRows(s) :
                df["amount"][i] < 1000 => df["rule_flagged"][i] = 1
          /\ \E i \in SenderRows(s) :
                df["amount"][i] >= 1000 /\ df["rule_flagged"][i] = 0

(***************************************************************************)
(* C2: rule 3 fires on a transaction exactly when amount * count is        *)
(* greater than 5 * sum over its sender's transactions, and never on a     *)
(* transaction that is its sender's only one, which therefore stays        *)
(* unflagged unless rule 1 or rule 2 fires on it.                          *)
(***************************************************************************)
C2_Spike ==
    Ruled =>
        LET small == SmallCounts
            totals == SenderTotals
            spike == Spike(df)
        IN  \A i \in Rows(df) :
                /\ spike[i] <=> RuleThree(i, totals)
                /\ Of(totals, df["sender_id"][i])[2] = 1 => ~spike[i]
                /\ (Of(totals, df["sender_id"][i])[2] = 1
                       /\ ~RuleOne(i, small) /\ ~RuleTwo(i))
                      => df["rule_flagged"][i] = 0

(***************************************************************************)
(* C3: after apply_rules every transaction whose location is Offshore or   *)
(* Garissa has rule_flagged = 1.                                           *)
(***************************************************************************)
C3_HighRiskFlagged ==
    Ruled =>
        \A i \in Rows(df) :
            df["location"][i] \in {"Offshore", "Garissa"} => df["rule_flagged"][i] = 1

\* a Garissa transaction on which neither rule 1 nor rule 3 fires, flagged
C3_Witness ==
    /\ pc = "ruled"
    /\ \E i \in Rows(df) :
          /\ df["location"][i] = "Garissa"
          /\ ~RuleOne(i, SmallCounts)
          /\ ~RuleThree(i, SenderTotals)
          /\ df["rule_flagged"][i] = 1

(***************************************************************************)
(* C4: after apply_rules, also when it ran on a frame it had processed     *)
(* before, rule_flagged is 0 or 1 on every row and is 1 exactly on the     *)
(* rows on which rule 1, rule 2 or rule 3 fires.                           *)
(***************************************************************************)
C4_RuleUnion ==
    Ruled =>
        LET small == SmallCounts
            totals == SenderTotals
        IN  \A i \in Rows(df) :
                /\ df["rule_flagged"][i] \in {0, 1}
                /\ df["rule_flagged"][i] = 1
                      <=> (RuleOne(i, small) \/ RuleTwo(i) \/ RuleThree(i, totals))

\* apply_rules has run again on a processed frame; one row has two rules
\* firing and is flagged, another is its sender's only transaction, of 1000
\* or more at a low-risk location, and is not
C4_Witness ==
    /\ pc = "ruled"
    /\ "suspicious" \in DOMAIN df
    /\ \E i \in Rows(df) :
          RuleOne(i, SmallCounts) /\ RuleTwo(i) /\ df["rule_flagged"][i] = 1
    /\ \E i \in Rows(df) :
          /\ df["amount"][i] >= 1000
          /\ ~RuleTwo(i)
          /\ Of(SenderTotals, df["sender_id"][i])[2] = 1
          /\ df["rule_flagged"][i] = 0

(***************************************************************************)
(* C5: after apply_rules and apply_ml, suspicious is 0 or 1 on every row   *)
(* and is 1 exactly when rule_flagged or ml_flagged is 1.                  *)
(***************************************************************************)
C5_Combiner ==
    pc = "done" =>
        \A i \in Rows(df) :
            /\ df["suspicious"][i] \in {0, 1}
            /\ df["suspicious"][i] = 1
                  <=> (df["rule_flagged"][i] = 1 \/ df["ml_flagged"][i] = 1)

\* the three ways to be suspicious or not, side by side in one frame
C5_Witness ==
    /\ pc = "done"
    /\ \E i \in Rows(df) :
          df["rule_flagged"][i] = 0 /\ df["ml_flagged"][i] = 1 /\ df["suspicious"][i] = 1
    /\ \E i \in Rows(df) :
          df["rule_flagged"][i] = 1 /\ df["ml_flagged"][i] = 0 /\ df["suspicious"][i] = 1
    /\ \E i \in Rows(df) :
          df["rule_flagged"][i] = 0 /\ df["ml_flagged"][i] = 0 /\ df["suspicious"][i] = 0

(***************************************************************************)
(* C6: the frame generate_transactions(n) returns, n >= 1, has no two rows *)
(* with the same transaction_id, and every transaction_id is positive.     *)
(***************************************************************************)
C6_UniqueIds ==
    (n >= 1 /\ pc = "start") =>
        /\ Cardinality({df["transaction_id"][i] : i \in Rows(df)}) = NRows(df)
        /\ \A i \in Rows(df) : df["transaction_id"][i] >= 1

(***************************************************************************)
(* C7: after apply_rules and apply_ml every transaction id of the batch    *)
(* has exactly one row of verdicts, for the batches of main as well.       *)
(***************************************************************************)
C7_Coverage ==
    pc = "done" =>
        /\ {"rule_flagged", "ml_flagged", "suspicious"} \subseteq DOMAIN df
        /\ \A c \in DOMAIN df : Len(df[c]) = NRows(df)
        /\ Cardinality({df["transaction_id"][i] : i \in Rows(df)}) = NRows(df)

(***************************************************************************)
(* C8: on a batch without transactions the pipeline raises no error.       *)
(***************************************************************************)
C8_EmptyBatch ==
    (pc # "main" /\ NRows(df) = 0) => pc # "error"

C10_MalformedRejected ==
    (\E i \in Rows(df) : df["amount"][i] <= 0 \/ df["location"][i] = NoLocation)
        => ~Ruled

====
